---------------------------- MODULE Spec2Model ----------------------------
(***************************************************************************)
(* Model of two pieces of the ZMK firmware:                                *)
(*                                                                         *)
(*   app/src/usb_hid.c                 the USB HID report queue, its drain *)
(*                                     work item and the enqueue call      *)
(*   app/src/split/bluetooth/service.c the split service's GATT write      *)
(*                                     handlers (run-behavior payload)     *)
(*                                                                         *)
(* The two pieces share no state.  SpecUsb runs the first, SpecSvc the     *)
(* second.                                                                 *)
(***************************************************************************)
EXTENDS Integers, Sequences, FiniteSets, TLC

VARIABLES
    \* ---- usb_hid.c ----
    usb_hid_msgq,     \* K_MSGQ usb_hid_msgq: the queued reports, head first
    usb_hid_failed,   \* static int usb_hid_failed
    pc,               \* position of usb_hid_work_handler: idle/peek/write/get
    msg,              \* the handler's local `struct usb_hid_msg msg` (0: unset)
    queued,           \* usb_hid_work: K_WORK_QUEUED (pending in the work queue)
    delayed,          \* usb_hid_work: K_WORK_DELAYED (10ms timeout armed)
    iface,            \* how hid_int_ep_write behaves in this run
    nFaults,          \* failed writes so far of a "flaky" interface
    nEnq,             \* reports k_msgq_put accepted so far (they are 1..nEnq)
    attempts,         \* hid_int_ep_write calls made for the current head
    delivered,        \* reports hid_int_ep_write accepted, in order
    removed,          \* reports k_msgq_get took out, in order
    call,             \* the zmk_usb_hid_send_report or in_ready_cb call that
                      \* just returned
    running,          \* executions of usb_hid_work_handler under way
    \* ---- split/bluetooth/service.c ----
    payload,          \* behavior_run_payload, byte by byte (offsets from 0)
    ramEnd,           \* first address, counted from the start of
                      \* behavior_run_payload, that is not writable memory
    corrupt,          \* memory outside behavior_run_payload was overwritten
    halted,           \* a write hit an unmapped address: the firmware faulted
    covered,          \* header offsets addressed by the accepted writes since
                      \* the last dispatch
    nWrites,          \* calls of split_svc_run_behavior so far
    dispatched,       \* behavior invocations so far, oldest first
    wr,               \* the split_svc_run_behavior call that ran last
    \* ---- split/bluetooth/service.c, HID indicators ----
    hid_indicators,   \* the bitmask, byte by byte
    indQueued,        \* entries of split_svc_update_indicators_work in the
                      \* system work queue
    indPc,            \* where split_svc_update_indicators_callback is
    raised,           \* the indicators of the events raised so far, in order
    indDirty,         \* a write was accepted since the callback last read
    nIndWrites,       \* calls of split_svc_update_indicators so far
    iw                \* the split_svc_update_indicators call that ran last

usbVars == <<usb_hid_msgq, usb_hid_failed, pc, msg, queued, delayed, iface,
             nFaults, nEnq, attempts, delivered, removed, call, running>>

svcVars == <<payload, ramEnd, corrupt, halted, covered, nWrites, dispatched, wr>>

indVars == <<hid_indicators, indQueued, indPc, raised, indDirty, nIndWrites, iw>>

vars == <<usbVars, svcVars, indVars>>

-----------------------------------------------------------------------------
(* Bounds of the model *)

\* reports accepted into the queue in one run (one more than the queue holds,
\* so that a full queue is met and drained)
MaxEnq == 9

\* failed writes of a "flaky" interface in one run (a drop takes three)
MaxFaults == 4

\* calls of split_svc_run_behavior in one run
MaxWrites == 3

\* ZMK_SPLIT_RUN_BEHAVIOR_DEV_LEN, the size of the behavior_dev field, scaled
\* down: identifiers of up to DevLen - 1 characters and their NUL
DevLen == 3

\* calls of split_svc_update_indicators in a run
MaxIndWrites == 3

\* sizeof(zmk_hid_indicators_t), in bytes
IndSize == 2

-----------------------------------------------------------------------------
(* usb_hid.c *)

\* K_MSGQ_DEFINE(usb_hid_msgq, sizeof(struct usb_hid_msg), 8, 1)
MsgqCapacity == 8

\* a handler that gives up one attempt early
MaxFailedEarly == 3 - 1

\* a retry bound that is off by one: `if (usb_hid_failed <= 3)`
MaxFailedOffByOne == 3 + 1

\* `if (usb_hid_failed < 3)`: the third consecutive failure drops the report
MaxFailed == 3

\* errno of `return -ENODEV`
ENODEV == 19

\* enum usb_dc_status_code, the values zmk_usb_get_status() can return
UsbStatus == {"USB_DC_ERROR", "USB_DC_RESET", "USB_DC_CONNECTED",
              "USB_DC_CONFIGURED", "USB_DC_DISCONNECTED", "USB_DC_SUSPEND",
              "USB_DC_RESUME", "USB_DC_INTERFACE", "USB_DC_SET_HALT",
              "USB_DC_CLEAR_HALT", "USB_DC_SOF", "USB_DC_UNKNOWN"}

\* the statuses the switch sends to `return -ENODEV`
NoDeviceStatus == {"USB_DC_ERROR", "USB_DC_RESET", "USB_DC_DISCONNECTED",
                   "USB_DC_UNKNOWN"}

\* a switch that lost its `case USB_DC_UNKNOWN:` label
ReadyStatusWithUnknown ==
    UsbStatus \ {"USB_DC_ERROR", "USB_DC_RESET", "USB_DC_DISCONNECTED",
                 "USB_DC_SUSPEND"}

\* the statuses that reach the `default:` branch, where the report is queued
ReadyStatus == UsbStatus \ (NoDeviceStatus \cup {"USB_DC_SUSPEND"})

\* what usb_wakeup_request() can return: 0, or a negative errno
WakeupResults == {0, -13}

\* behaviours of the delivery interface: every hid_int_ep_write succeeds,
\* every one fails, or each one may do either
Ifaces == {"succeed", "fail", "flaky"}

\* the results (err # 0) hid_int_ep_write can give now
WriteErrors == CASE iface = "succeed" -> {FALSE}
                 [] iface = "fail"    -> {TRUE}
                 [] OTHER             -> IF nFaults < MaxFaults THEN {FALSE, TRUE}
                                         ELSE {FALSE}

\* `call` when no zmk_usb_hid_send_report call has just returned.  In a call's
\* record, put is what k_msgq_put did ("ok", "full", or "none" when it was not
\* called), woke tells whether usb_wakeup_request was called and wakeRet what
\* it returned.
NoCall == [status |-> "none", ret |-> 0, put |-> "none", woke |-> FALSE,
           wakeRet |-> 0]

\* `call` when in_ready_cb has just returned
ReadyCall == [status |-> "in_ready_cb", ret |-> 0, put |-> "none",
              woke |-> FALSE, wakeRet |-> 0]

\* k_msgq_put(&usb_hid_msgq, &msg, K_NO_WAIT): TRUE when the queue took it
MsgqHasRoom(q) == Len(q) < MsgqCapacity

k_msgq_put(q, m) == IF MsgqHasRoom(q) THEN Append(q, m) ELSE q

\* a k_msgq_get that, like k_msgq_peek, leaves the message in the queue
k_msgq_get_keeps(q) == q

\* a queue that gives up its newest element instead of its oldest
k_msgq_get_newest(q) == IF q = <<>> THEN q ELSE SubSeq(q, 1, Len(q) - 1)

\* k_msgq_get(&usb_hid_msgq, &msg, K_NO_WAIT): the head leaves the queue
k_msgq_get(q) == IF q = <<>> THEN q ELSE Tail(q)

\* a k_work_schedule_for_queue that always queues the work item at once,
\* cancelling a pending delay
k_work_schedule_now(q, d) == <<TRUE, FALSE>>

\* an enqueue that does not schedule the work item
k_work_schedule_missing(q, d) == <<q, d>>

\* k_work_schedule_for_queue(.., K_NO_WAIT): does nothing when the work item
\* is already delayed or queued (running does not count), else queues it.
\* Yields the new <<queued, delayed>>.
k_work_schedule(q, d) == IF q \/ d THEN <<q, d>> ELSE <<TRUE, d>>

\* a reschedule with K_NO_WAIT that leaves a pending delay to run out
k_work_reschedule_keeps_delay(q, d) == IF d THEN <<q, d>> ELSE <<TRUE, FALSE>>

\* k_work_reschedule_for_queue(.., K_NO_WAIT): cancels a pending timeout and
\* queues the work item.
k_work_reschedule_now(q, d) == <<TRUE, FALSE>>

\* a reschedule with K_MSEC(10) that arms nothing
k_work_reschedule_delay_missing(q, d) == <<q, d>>

\* k_work_reschedule_for_queue(.., K_MSEC(10)): re-arms the timeout; a
\* K_WORK_QUEUED flag set meanwhile stays.
k_work_reschedule_delay(q, d) == <<q, TRUE>>

\* a work item handed to a thread that is not the one already running it
WorkQueueFreeAlways == TRUE

\* Every submission of usb_hid_work names zmk_workqueue_lowprio_work_q(): one
\* thread runs the work item, and takes it again only once the handler has
\* returned.
WorkQueueFree == pc = "idle"

\* the value zmk_usb_hid_send_report returns
SendReportRet(status, wake, room) ==
    IF status = "USB_DC_SUSPEND" THEN wake
    ELSE IF status \in NoDeviceStatus THEN -ENODEV
    ELSE 0

UsbInit ==
    /\ usb_hid_msgq = <<>>
    /\ usb_hid_failed = 0
    /\ pc = "idle"
    /\ msg = 0
    /\ queued = FALSE
    /\ delayed = FALSE
    /\ iface \in Ifaces
    /\ nFaults = 0
    /\ nEnq = 0
    /\ attempts = 0
    /\ delivered = <<>>
    /\ removed = <<>>
    /\ call = NoCall
    /\ running = 0

\* zmk_usb_hid_send_report(report, len) with zmk_usb_get_status() = status and
\* usb_wakeup_request() = wake
SendReport(status, wake) ==
    /\ (status \in ReadyStatus /\ MsgqHasRoom(usb_hid_msgq)) => nEnq < MaxEnq
    /\ IF status \in ReadyStatus
       THEN LET room == MsgqHasRoom(usb_hid_msgq)
                sch  == k_work_schedule(queued, delayed)
            IN /\ usb_hid_msgq' = k_msgq_put(usb_hid_msgq, nEnq + 1)
               /\ nEnq' = IF room THEN nEnq + 1 ELSE nEnq
               /\ queued' = IF room THEN sch[1] ELSE queued
               /\ delayed' = IF room THEN sch[2] ELSE delayed
               /\ call' = [status |-> status,
                           ret |-> SendReportRet(status, wake, room),
                           put |-> IF room THEN "ok" ELSE "full",
                           woke |-> FALSE, wakeRet |-> 0]
       ELSE /\ call' = [status |-> status,
                        ret |-> SendReportRet(status, wake, TRUE),
                        put |-> "none",
                        woke |-> status = "USB_DC_SUSPEND",
                        wakeRet |-> IF status = "USB_DC_SUSPEND" THEN wake ELSE 0]
            /\ UNCHANGED <<usb_hid_msgq, nEnq, queued, delayed>>
    /\ UNCHANGED <<usb_hid_failed, pc, msg, iface, nFaults, attempts, delivered,
                   removed, running>>
    /\ UNCHANGED <<svcVars, indVars>>

\* in_ready_cb: the interrupt IN endpoint is ready
InReadyCb ==
    /\ LET sch == k_work_reschedule_now(queued, delayed)
       IN /\ queued' = sch[1]
          /\ delayed' = sch[2]
    /\ call' = ReadyCall
    /\ UNCHANGED <<usb_hid_msgq, usb_hid_failed, pc, msg, iface, nFaults, nEnq,
                   attempts, delivered, removed, running>>
    /\ UNCHANGED <<svcVars, indVars>>

\* the 10ms timeout of usb_hid_work expires: the work item is queued
WorkTimeout ==
    /\ delayed
    /\ delayed' = FALSE
    /\ queued' = TRUE
    /\ call' = NoCall
    /\ UNCHANGED <<usb_hid_msgq, usb_hid_failed, pc, msg, iface, nFaults, nEnq,
                   attempts, delivered, removed, running>>
    /\ UNCHANGED <<svcVars, indVars>>

\* the work queue thread takes usb_hid_work and enters usb_hid_work_handler
WorkStart ==
    /\ queued
    /\ WorkQueueFree
    /\ queued' = FALSE
    /\ pc' = "peek"
    /\ running' = running + 1
    /\ call' = NoCall
    /\ UNCHANGED <<usb_hid_msgq, usb_hid_failed, msg, delayed, iface, nFaults,
                   nEnq, attempts, delivered, removed>>
    /\ UNCHANGED <<svcVars, indVars>>

\* while (k_msgq_peek(&usb_hid_msgq, &msg) == 0)
HandlerPeek ==
    /\ pc = "peek"
    /\ IF usb_hid_msgq = <<>>
       THEN /\ pc' = "idle"
            /\ msg' = msg
            /\ running' = running - 1
       ELSE /\ pc' = "write"
            /\ msg' = Head(usb_hid_msgq)
            /\ running' = running
    /\ call' = NoCall
    /\ UNCHANGED <<usb_hid_msgq, usb_hid_failed, queued, delayed, iface, nFaults,
                   nEnq, attempts, delivered, removed>>
    /\ UNCHANGED <<svcVars, indVars>>

\* err = hid_int_ep_write(..); if (err) { usb_hid_failed++; .. }
HandlerWrite(err) ==
    /\ pc = "write"
    /\ attempts' = attempts + 1
    /\ nFaults' = IF err /\ iface = "flaky" THEN nFaults + 1 ELSE nFaults
    /\ IF err
       THEN /\ usb_hid_failed' = usb_hid_failed + 1
            /\ delivered' = delivered
            /\ IF usb_hid_failed + 1 < MaxFailed
               THEN LET sch == k_work_reschedule_delay(queued, delayed)
                    IN /\ queued' = sch[1]
                       /\ delayed' = sch[2]
                       /\ pc' = "idle"
                       /\ running' = running - 1
               ELSE /\ pc' = "get"
                    /\ UNCHANGED <<queued, delayed, running>>
       ELSE /\ delivered' = Append(delivered, msg)
            /\ pc' = "get"
            /\ UNCHANGED <<usb_hid_failed, queued, delayed, running>>
    /\ call' = NoCall
    /\ UNCHANGED <<usb_hid_msgq, msg, iface, nEnq, removed>>
    /\ UNCHANGED <<svcVars, indVars>>

\* a handler that removes the head without `usb_hid_failed = 0;`
HandlerGetKeepsCount ==
    /\ pc = "get"
    /\ usb_hid_msgq' = k_msgq_get(usb_hid_msgq)
    /\ removed' = IF usb_hid_msgq = <<>> THEN removed
                  ELSE Append(removed, Head(usb_hid_msgq))
    /\ usb_hid_failed' = usb_hid_failed
    /\ attempts' = 0
    /\ pc' = "peek"
    /\ call' = NoCall
    /\ UNCHANGED <<msg, queued, delayed, iface, nFaults, nEnq, delivered, running>>
    /\ UNCHANGED <<svcVars, indVars>>

\* k_msgq_get(&usb_hid_msgq, &msg, K_NO_WAIT); usb_hid_failed = 0;
HandlerGet ==
    /\ pc = "get"
    /\ usb_hid_msgq' = k_msgq_get(usb_hid_msgq)
    /\ removed' = IF usb_hid_msgq = <<>> THEN removed
                  ELSE Append(removed, Head(usb_hid_msgq))
    /\ usb_hid_failed' = 0
    /\ attempts' = 0
    /\ pc' = "peek"
    /\ call' = NoCall
    /\ UNCHANGED <<msg, queued, delayed, iface, nFaults, nEnq, delivered, running>>
    /\ UNCHANGED <<svcVars, indVars>>

NextUsb ==
    \/ \E status \in UsbStatus, wake \in WakeupResults : SendReport(status, wake)
    \/ InReadyCb
    \/ WorkTimeout
    \/ WorkStart
    \/ HandlerPeek
    \/ \E err \in WriteErrors : HandlerWrite(err)
    \/ HandlerGet

-----------------------------------------------------------------------------
(* split/bluetooth/service.c *)

\* sizeof(struct zmk_split_run_behavior_data): position and state (one byte
\* each), param1 and param2 (four bytes each, little endian), packed
DataSize == 10

\* offsetof(struct zmk_split_run_behavior_payload, behavior_dev)
behavior_dev_offset == DataSize

\* sizeof(struct zmk_split_run_behavior_payload)
PayloadSize == DataSize + DevLen

\* BT_ATT_ERR_INVALID_OFFSET; BT_GATT_ERR(x) is -(x)
BT_ATT_ERR_INVALID_OFFSET == 7

BT_GATT_ERR(x) == -x

\* uint16_t arithmetic
U16(x) == x % 65536

\* addresses are counted in bytes from the start of behavior_run_payload
BufAddrs == 0 .. (PayloadSize - 1)

HeaderAddrs == 0 .. (DataSize - 1)

\* the value of the four bytes at a..a+3, little endian
LE32(mem, a) == mem[a] + 256 * mem[a + 1] + 65536 * mem[a + 2]
                + 16777216 * mem[a + 3]

\* byte k (0..3) of a 32-bit value, little endian
ByteOf(v, k) == CASE k = 0 -> v % 256
                  [] k = 1 -> (v \div 256) % 256
                  [] k = 2 -> (v \div 65536) % 256
                  [] OTHER -> (v \div 16777216) % 256

\* The commands the peer sends: a press and a release.  Identifiers are
\* sequences of non-NUL bytes ("fo", "b").
Commands ==
    { [position |-> 5, state |-> 1, param1 |-> 10,  param2 |-> 0, dev |-> <<102, 111>>],
      [position |-> 7, state |-> 0, param1 |-> 300, param2 |-> 2, dev |-> <<98>>] }

\* the peer's encoding of a command: the bytes of a
\* struct zmk_split_run_behavior_payload, the identifier NUL-padded
Image(c) ==
    [a \in BufAddrs |->
        CASE a = 0 -> c.position
          [] a = 1 -> c.state
          [] a \in 2..5 -> ByteOf(c.param1, a - 2)
          [] a \in 6..9 -> ByteOf(c.param2, a - 6)
          [] OTHER -> IF a - behavior_dev_offset + 1 <= Len(c.dev)
                      THEN c.dev[a - behavior_dev_offset + 1] ELSE 0]

\* the `len` bytes the peer passes with a write at `offset`: that part of the
\* command's image (buf[0] is Buf(..)[1])
Buf(c, offset, len) ==
    [i \in 1..len |-> Image(c)[(offset + i - 1) % PayloadSize]]

\* `payload + offset` with payload a struct zmk_split_run_behavior_payload *:
\* the pointer moves by whole structs
DestAddr(offset) == offset * PayloadSize

\* memcpy(payload + offset, buf, len): the bytes that land in the buffer
Memcpy(mem, offset, buf, len) ==
    [a \in BufAddrs |->
        IF a >= DestAddr(offset) /\ a < DestAddr(offset) + len
        THEN buf[a - DestAddr(offset) + 1] ELSE mem[a]]

\* memcpy(payload + offset, buf, len) writes outside behavior_run_payload
WritesOutside(offset, len) == len > 0 /\ DestAddr(offset) + len > PayloadSize

\* the check `end_addr > sizeof(struct zmk_split_run_behavior_payload)`
Rejected(offset, len) == U16(offset + len) > PayloadSize

\* a run condition that also asks the write to have changed the buffer
ShouldRunIfChanged(mem, end_addr) ==
    /\ end_addr > DataSize
    /\ mem[end_addr - 1] = 0
    /\ mem # payload

\* the condition under which the behavior is run
ShouldRun(mem, end_addr) ==
    /\ end_addr > DataSize
    /\ mem[end_addr - 1] = 0

\* the C string at payload->behavior_dev
RECURSIVE CString(_, _)
CString(mem, a) ==
    IF a >= PayloadSize \/ mem[a] = 0 THEN <<>>
    ELSE <<mem[a]>> \o CString(mem, a + 1)

\* the invocation built from the buffer; err is what the behavior returns
Invocation(mem, err) ==
    [pressed      |-> mem[1] > 0,
     behavior_dev |-> CString(mem, behavior_dev_offset),
     param1       |-> LE32(mem, 2),
     param2       |-> LE32(mem, 6),
     position     |-> mem[0],
     err          |-> err]

\* a handler that hands the behavior's error back to the writer
RunBehaviorRetErr(len, err) == IF err # 0 THEN err ELSE len

\* `return len;`: what an accepted write returns, the behavior having
\* returned err (0 when it did not run)
RunBehaviorRet(len, err) == len

\* what behavior_keymap_binding_pressed/released can return
BehaviorResults == {0, -134}

\* the memory that follows behavior_run_payload, as the build lays it out:
\* writable for one more struct only, or for all the offsets a uint16_t can
\* hold
RamEnds == {2 * PayloadSize, 65536 * PayloadSize}

\* the offsets the peer writes at: the start of the buffer, one byte in, the
\* start of behavior_dev, one byte into it, the end of the buffer, and the
\* largest uint16_t
Offsets == {0, 1, DataSize, DataSize + 1, PayloadSize, 65535}

\* the lengths the peer writes: up to a whole identifier, and from the header
\* alone to one byte more than the buffer holds
Lens == (0 .. DevLen) \cup (DataSize .. (PayloadSize + 1))

\* `wr` when the peer's last write is forgotten.  In a write's record, ret is
\* what the handler returned, ran whether it ran the behavior, fault whether
\* it faulted instead of returning, resent whether the peer sent the same
\* write just before.
NoWrite == [offset |-> 0, len |-> 0, buf |-> <<>>, ret |-> 0, ran |-> FALSE,
            fault |-> FALSE, resent |-> FALSE, valid |-> FALSE]

SvcInit ==
    /\ payload = [a \in BufAddrs |-> 0]
    /\ ramEnd \in RamEnds
    /\ corrupt = FALSE
    /\ halted = FALSE
    /\ covered = {}
    /\ nWrites = 0
    /\ dispatched = <<>>
    /\ wr = NoWrite

\* split_svc_run_behavior(conn, attrs, buf, len, offset, flags), the behavior
\* (when it runs) returning err
split_svc_run_behavior(buf, offset, len, err, resent) ==
    LET end_addr == U16(offset + len)
        mem      == Memcpy(payload, offset, buf, len)
        fault    == WritesOutside(offset, len) /\ DestAddr(offset) + len > ramEnd
        run      == ShouldRun(mem, end_addr)
    IN
    /\ ~halted
    /\ nWrites < MaxWrites
    /\ nWrites' = nWrites + 1
    /\ UNCHANGED <<usbVars, indVars>>
    /\ ramEnd' = ramEnd
    /\ IF Rejected(offset, len)
       THEN /\ wr' = [offset |-> offset, len |-> len, buf |-> buf,
                      ret |-> BT_GATT_ERR(BT_ATT_ERR_INVALID_OFFSET),
                      ran |-> FALSE, fault |-> FALSE, resent |-> resent,
                      valid |-> TRUE]
            /\ UNCHANGED <<payload, corrupt, halted, covered, dispatched>>
       ELSE IF fault
       THEN /\ halted' = TRUE
            /\ wr' = [offset |-> offset, len |-> len, buf |-> buf, ret |-> 0,
                      ran |-> FALSE, fault |-> TRUE, resent |-> resent,
                      valid |-> TRUE]
            /\ UNCHANGED <<payload, corrupt, covered, dispatched>>
       ELSE /\ payload' = mem
            /\ corrupt' = (corrupt \/ WritesOutside(offset, len))
            /\ halted' = FALSE
            /\ dispatched' = IF run THEN Append(dispatched, Invocation(mem, err))
                             ELSE dispatched
            /\ covered' = IF run THEN {}
                          ELSE covered \cup
                               {a \in HeaderAddrs : a >= offset /\ a < end_addr}
            /\ wr' = [offset |-> offset, len |-> len, buf |-> buf,
                      ret |-> RunBehaviorRet(len, IF run THEN err ELSE 0),
                      ran |-> run, fault |-> FALSE, resent |-> resent,
                      valid |-> TRUE]

\* the peer writes `len` bytes of command c at `offset`
RunBehaviorWrite(c, offset, len, err) ==
    /\ ~wr.valid
    /\ split_svc_run_behavior(Buf(c, offset, len), offset, len, err, FALSE)

\* the peer sends its last write again, unchanged
RunBehaviorResend(err) ==
    /\ wr.valid
    /\ split_svc_run_behavior(wr.buf, wr.offset, wr.len, err, TRUE)

\* the peer is done with its last write: the next one is unrelated to it
RunBehaviorDone ==
    /\ wr.valid
    /\ wr' = NoWrite
    /\ UNCHANGED <<payload, ramEnd, corrupt, halted, covered, nWrites, dispatched>>
    /\ UNCHANGED <<usbVars, indVars>>

NextSvc ==
    \/ \E c \in Commands, offset \in Offsets, len \in Lens, err \in BehaviorResults :
          RunBehaviorWrite(c, offset, len, err)
    \/ \E err \in BehaviorResults : RunBehaviorResend(err)
    \/ RunBehaviorDone

-----------------------------------------------------------------------------
(* split/bluetooth/service.c: the HID indicators characteristic *)

\* the bytes of hid_indicators, from offset 0
IndAddrs == 0..(IndSize - 1)

\* the first byte of the buffers a central writes
IndBytes == {1, 4}

\* static zmk_hid_indicators_t hid_indicators = 0;
IndZero == [a \in IndAddrs |-> 0]

\* a bounds check done in the 16 bits of its operands
IndRejectedU16(offset, len) == U16(offset + len) > IndSize

\* if (offset + len > sizeof(zmk_hid_indicators_t)): the uint16_t operands
\* are promoted to int, so the sum does not wrap
IndRejected(offset, len) == offset + len > IndSize

\* memcpy((uint8_t *)&hid_indicators + offset, buf, len): a byte pointer, so
\* byte i of buf lands at offset + i
IndMemcpy(mem, offset, buf) ==
    [a \in IndAddrs |->
        IF a >= offset /\ a < offset + Len(buf) THEN buf[a - offset + 1] ELSE mem[a]]

\* a k_work_submit that adds an entry whether or not one is there
k_work_submit_each(n) == n + 1

\* k_work_submit(&split_svc_update_indicators_work): a work item that is
\* already in the queue stays there once; one that is not (running or at
\* rest) is put in
k_work_submit(n) == IF n > 0 THEN n ELSE 1

\* the offsets and lengths a central can send, around the edges of the check
IndOffsets == {0, 1, IndSize, 65535}

IndLens == 0..(IndSize + 1)

\* buffers of len bytes, each byte one more than the byte before it
IndBufs(len) == {[i \in 1..len |-> b + i - 1] : b \in IndBytes}

NoIndWrite == [valid |-> FALSE, offset |-> 0, len |-> 0, buf |-> <<>>, ret |-> 0]

IndInit ==
    /\ hid_indicators = IndZero
    /\ indQueued = 0
    /\ indPc = "idle"
    /\ raised = <<>>
    /\ indDirty = FALSE
    /\ nIndWrites = 0
    /\ iw = NoIndWrite

\* split_svc_update_indicators(conn, attrs, buf, len, offset, flags)
split_svc_update_indicators(buf, offset, len) ==
    /\ nIndWrites < MaxIndWrites
    /\ nIndWrites' = nIndWrites + 1
    /\ IF IndRejected(offset, len)
       THEN /\ iw' = [valid |-> TRUE, offset |-> offset, len |-> len, buf |-> buf,
                      ret |-> BT_GATT_ERR(BT_ATT_ERR_INVALID_OFFSET)]
            /\ UNCHANGED <<hid_indicators, indQueued, indDirty>>
       ELSE /\ hid_indicators' = IndMemcpy(hid_indicators, offset, buf)
            /\ indQueued' = k_work_submit(indQueued)
            /\ indDirty' = TRUE
            /\ iw' = [valid |-> TRUE, offset |-> offset, len |-> len, buf |-> buf,
                      ret |-> len]
    /\ UNCHANGED <<indPc, raised>>
    /\ UNCHANGED <<usbVars, svcVars>>

\* the system work queue takes split_svc_update_indicators_work and enters
\* split_svc_update_indicators_callback
IndWorkStart ==
    /\ indQueued > 0
    /\ indPc = "idle"
    /\ indQueued' = indQueued - 1
    /\ indPc' = "run"
    /\ iw' = NoIndWrite
    /\ UNCHANGED <<hid_indicators, raised, indDirty, nIndWrites>>
    /\ UNCHANGED <<usbVars, svcVars>>

\* raise_zmk_hid_indicators_changed((struct zmk_hid_indicators_changed){
\*     .indicators = hid_indicators});
split_svc_update_indicators_callback ==
    /\ indPc = "run"
    /\ raised' = Append(raised, hid_indicators)
    /\ indDirty' = FALSE
    /\ indPc' = "idle"
    /\ iw' = NoIndWrite
    /\ UNCHANGED <<hid_indicators, indQueued, nIndWrites>>
    /\ UNCHANGED <<usbVars, svcVars>>

NextInd ==
    \/ \E offset \in IndOffsets, len \in IndLens :
          \E buf \in IndBufs(len) : split_svc_update_indicators(buf, offset, len)
    \/ IndWorkStart
    \/ split_svc_update_indicators_callback

-----------------------------------------------------------------------------
(* Specifications *)

\* usb_hid.c alone: service.c stays as it starts
InitUsb ==
    /\ UsbInit
    /\ SvcInit
    /\ IndInit
    /\ ramEnd = 2 * PayloadSize

SpecUsb == InitUsb /\ [][NextUsb]_vars

\* usb_hid.c with a work queue thread that is not starved and a 10ms timeout
\* that runs out: a step of the work item that stays possible is taken
FairUsb ==
    /\ WF_vars(WorkTimeout)
    /\ WF_vars(WorkStart)
    /\ WF_vars(HandlerPeek)
    /\ WF_vars(\E err \in WriteErrors : HandlerWrite(err))
    /\ WF_vars(HandlerGet)

SpecUsbFair == InitUsb /\ [][NextUsb]_vars /\ FairUsb

\* service.c alone: usb_hid.c stays as it starts
InitSvc ==
    /\ SvcInit
    /\ UsbInit
    /\ IndInit
    /\ iface = "succeed"

SpecSvc == InitSvc /\ [][NextSvc]_vars

\* the HID indicators characteristic alone
InitInd ==
    /\ IndInit
    /\ UsbInit
    /\ SvcInit
    /\ iface = "succeed"
    /\ ramEnd = 2 * PayloadSize

SpecInd == InitInd /\ [][NextInd]_vars

-----------------------------------------------------------------------------
(* Properties of usb_hid.c, under SpecUsb *)

\* the reports accepted so far, in the order they were accepted
Enqueued == [i \in 1..nEnq |-> i]

IsPrefix(s, t) == Len(s) <= Len(t) /\ \A i \in 1..Len(s) : s[i] = t[i]

\* the work item is neither running, nor queued, nor delayed
WorkerAtRest == pc = "idle" /\ ~queued /\ ~delayed

\* C1: with a delivery interface that fails every attempt, a report is never
\* written more than 3 times and none is ever delivered; a report leaves the
\* queue only after exactly 3 attempts on it, the report that leaves is the
\* head that was attempted, the report behind it becomes the head, and
\* usb_hid_failed is 0 right after the removal.
C1_RetryThenDrop ==
    /\ [](iface = "fail" =>
            /\ attempts <= 3
            /\ delivered = <<>>
            /\ (pc = "get" => attempts = 3))
    /\ [][(iface = "fail" /\ removed' # removed) =>
            /\ attempts = 3
            /\ usb_hid_msgq # <<>>
            /\ removed' = Append(removed, Head(usb_hid_msgq))
            /\ Head(usb_hid_msgq) = msg
            /\ usb_hid_msgq' = Tail(usb_hid_msgq)
            /\ usb_hid_failed' = 0]_vars

\* two reports were dropped one after the other while a third one waits, the
\* second drop just done
C1_Witness ==
    /\ iface = "fail"
    /\ Len(removed) = 2
    /\ usb_hid_msgq # <<>>
    /\ Head(usb_hid_msgq) = 3
    /\ pc = "peek"
    /\ usb_hid_failed = 0
    /\ attempts = 0

\* C2: with a delivery interface that always succeeds, the reports delivered
\* are at every moment the first ones accepted, in the order they were
\* accepted, each once; no attempt fails; and whenever the work item is at
\* rest the state is Idle: the queue is empty, every accepted report has been
\* delivered (N deliveries for N accepted reports) and usb_hid_failed is 0.
C2_FifoDelivery ==
    iface = "succeed" =>
        /\ IsPrefix(delivered, Enqueued)
        /\ usb_hid_failed = 0
        /\ ~delayed
        /\ (WorkerAtRest => /\ usb_hid_msgq = <<>>
                            /\ delivered = Enqueued)

\* a full queue of 8 reports was accepted and then drained to Idle
C2_Witness ==
    /\ iface = "succeed"
    /\ nEnq = 8
    /\ delivered = <<1, 2, 3, 4, 5, 6, 7, 8>>
    /\ usb_hid_msgq = <<>>
    /\ WorkerAtRest
    /\ usb_hid_failed = 0

\* C8 (as claimed): a zmk_usb_hid_send_report call that finds the queue full
\* leaves the queue as it was and returns a failure to its caller.
C8_FullQueueFails ==
    [][call'.put = "full" =>
          /\ usb_hid_msgq' = usb_hid_msgq
          /\ call'.ret # 0]_vars

\* the statuses the specification calls not ready
NotReady == {"USB_DC_SUSPEND", "USB_DC_DISCONNECTED", "USB_DC_ERROR",
             "USB_DC_RESET", "USB_DC_UNKNOWN"}

\* C9: a zmk_usb_hid_send_report call made while the status is not ready
\* leaves the queue, usb_hid_failed and the work item's state (queued, delayed,
\* position of the handler) unchanged; under USB_DC_SUSPEND it calls
\* usb_wakeup_request and returns what that returned; under USB_DC_DISCONNECTED,
\* USB_DC_ERROR, USB_DC_RESET and USB_DC_UNKNOWN it requests no wake-up and
\* returns -ENODEV.
C9_PreCheck ==
    [][call'.status \in NotReady =>
          /\ UNCHANGED <<usb_hid_msgq, usb_hid_failed, queued, delayed, pc, nEnq>>
          /\ call'.put = "none"
          /\ (call'.status = "USB_DC_SUSPEND" =>
                 call'.woke /\ call'.ret = call'.wakeRet)
          /\ (call'.status # "USB_DC_SUSPEND" =>
                 ~call'.woke /\ call'.ret = -ENODEV)]_vars

\* a call under USB_DC_SUSPEND returned the wake-up request's error while two
\* reports wait behind a delayed retry
C9_Witness ==
    /\ call.status = "USB_DC_SUSPEND"
    /\ call.woke
    /\ call.ret = -13
    /\ Len(usb_hid_msgq) = 2
    /\ delayed
    /\ usb_hid_failed = 1

\* C10: the reports taken out of the queue are, in order, the first reports
\* accepted; the queue holds the rest in the order of acceptance; and the report
\* the handler is attempting or about to take out is the head of the queue.
C10_FifoRemoval ==
    /\ IsPrefix(removed, Enqueued)
    /\ removed \o usb_hid_msgq = Enqueued
    /\ (pc \in {"write", "get"} => usb_hid_msgq # <<>> /\ msg = Head(usb_hid_msgq))

\* with a flaky interface a report was dropped, others were delivered, and the
\* handler is about to take out the head while more reports wait: report 1 was
\* dropped, 2 and 3 delivered
C10_Witness ==
    /\ iface = "flaky"
    /\ removed = <<1, 2>>
    /\ delivered = <<2, 3>>
    /\ pc = "get"
    /\ Len(usb_hid_msgq) >= 2

\* the last element of a non-empty sequence
Last(s) == s[Len(s)]

\* the work item waits for its 10ms timeout after a failed attempt
Backoff == pc = "idle" /\ delayed /\ ~queued /\ usb_hid_failed > 0

\* C11: whatever zmk_usb_hid_send_report and in_ready_cb schedule while the
\* handler runs, at most one execution of usb_hid_work_handler is under way
\* in any reachable state.
C11_SingleExecution == running <= 1

\* the handler is in the middle of an attempt, in_ready_cb has just
\* rescheduled the work item, and the work item is queued again behind it
C11_Witness ==
    /\ running = 1
    /\ pc = "write"
    /\ queued
    /\ call = ReadyCall
    /\ Len(usb_hid_msgq) >= 2

\* C12: a write that succeeds after k < 3 failed attempts on the head delivers
\* that head as attempt k + 1; a head is dropped only after 3 attempts; the
\* removal that follows sets usb_hid_failed to 0 and arms no delay, the handler
\* going on to the next report; the handler returns with reports left only
\* after a failed write; reports are delivered in the order they were
\* enqueued; and usb_hid_failed is 0 whenever the queue is empty.
C12_TransientRecovery ==
    /\ [][delivered' # delivered =>
            /\ usb_hid_failed < 3
            /\ usb_hid_msgq # <<>>
            /\ delivered' = Append(delivered, Head(usb_hid_msgq))
            /\ attempts' = usb_hid_failed + 1
            /\ pc' = "get"]_vars
    /\ []((pc = "get" /\ attempts < 3) =>
            /\ delivered # <<>>
            /\ usb_hid_msgq # <<>>
            /\ Last(delivered) = Head(usb_hid_msgq))
    /\ [][removed' # removed =>
            /\ usb_hid_failed' = 0
            /\ pc' = "peek"
            /\ UNCHANGED <<queued, delayed>>]_vars
    /\ [][(pc # "idle" /\ pc' = "idle" /\ usb_hid_msgq # <<>>) =>
            usb_hid_failed' = usb_hid_failed + 1]_vars
    /\ [](\A i, j \in 1..Len(delivered) : i < j => delivered[i] < delivered[j])
    /\ [](usb_hid_msgq = <<>> => usb_hid_failed = 0)

\* the first of three queued reports has just been delivered by the third
\* attempt on it, the first two having failed
C12_Witness ==
    /\ iface = "flaky"
    /\ pc = "get"
    /\ msg = 1
    /\ attempts = 3
    /\ usb_hid_failed = 2
    /\ delivered = <<1>>
    /\ usb_hid_msgq = <<1, 2, 3>>

\* C16: when the work item waits in backoff after a failed attempt, in_ready_cb
\* queues it at once and cancels the 10ms timeout, leaving the queue, the head
\* and usb_hid_failed as they are; and every attempt, however it was
\* triggered, is made on the head, with usb_hid_failed counting the attempts
\* already made on that head, fewer than 3.
C16_ReadySupersedesBackoff ==
    /\ [][(Backoff /\ call' = ReadyCall) =>
            /\ queued'
            /\ ~delayed'
            /\ pc' = "idle"
            /\ UNCHANGED <<usb_hid_msgq, usb_hid_failed, attempts>>]_vars
    /\ [](pc = "write" =>
            /\ usb_hid_msgq # <<>>
            /\ msg = Head(usb_hid_msgq)
            /\ attempts = usb_hid_failed
            /\ attempts < 3)

\* in_ready_cb has just returned after two failed attempts on the head: the
\* work item is queued, with no timeout left to wait for
C16_Witness ==
    /\ call = ReadyCall
    /\ pc = "idle"
    /\ queued
    /\ ~delayed
    /\ usb_hid_failed = 2
    /\ attempts = 2
    /\ usb_hid_msgq # <<>>

\* C17: a zmk_usb_hid_send_report whose k_msgq_put succeeds appends the report
\* at the tail and leaves usb_hid_failed and the handler alone; if the work
\* item is queued or delayed it leaves both flags as they are, and only
\* otherwise queues it, with no delay.
C17_EnqueueKeepsBackoff ==
    [][call'.put = "ok" =>
        /\ usb_hid_msgq' = Append(usb_hid_msgq, nEnq')
        /\ nEnq' = nEnq + 1
        /\ UNCHANGED <<usb_hid_failed, attempts, pc, msg>>
        /\ IF queued \/ delayed
           THEN UNCHANGED <<queued, delayed>>
           ELSE queued' /\ ~delayed']_vars

\* a report was enqueued behind a head that has failed twice, and the work
\* item still waits for its timeout
C17_Witness ==
    /\ call.put = "ok"
    /\ pc = "idle"
    /\ delayed
    /\ ~queued
    /\ usb_hid_failed = 2
    /\ Len(usb_hid_msgq) = 2

\* C18: whenever the queue is non-empty the work item is running, queued or
\* delayed; and with a work queue thread that is not starved, enqueues being
\* finitely many, the queue ends up empty for good with usb_hid_failed = 0, so
\* that every report that was ever in the queue has left it.
C18_NoStrandedReport ==
    /\ [](usb_hid_msgq # <<>> => ~WorkerAtRest)
    /\ <>[](usb_hid_msgq = <<>> /\ usb_hid_failed = 0)

\* reports wait in the queue while the handler is not running: only the
\* 10ms timeout stands between them and the next attempt
C18_Witness ==
    /\ Len(usb_hid_msgq) = 3
    /\ pc = "idle"
    /\ delayed
    /\ ~queued

\* the head was delivered by the write that has just been made
HeadDelivered ==
    /\ pc = "get"
    /\ delivered # <<>>
    /\ usb_hid_msgq # <<>>
    /\ Last(delivered) = Head(usb_hid_msgq)

\* C19: usb_hid_failed is in 0..2 whenever the handler is not executing and
\* never above 3; when it is above 0 the queue is non-empty, it is the number
\* of failed writes made on the current head, and the work item is running,
\* queued or delayed.
C19_FailureCounter ==
    /\ usb_hid_failed \in 0..3
    /\ (pc = "idle" => usb_hid_failed \in 0..2)
    /\ (usb_hid_failed > 0 =>
            /\ usb_hid_msgq # <<>>
            /\ usb_hid_failed = attempts - (IF HeadDelivered THEN 1 ELSE 0)
            /\ (pc \in {"write", "get"} => msg = Head(usb_hid_msgq))
            /\ ~WorkerAtRest)

\* two failed attempts on the head of three reports, the handler back at rest
\* and the retry armed
C19_Witness ==
    /\ usb_hid_failed = 2
    /\ pc = "idle"
    /\ delayed
    /\ ~queued
    /\ Len(usb_hid_msgq) = 3

\* C20: no report is delivered twice; the write that delivers a report is
\* followed, in the same execution of the handler, by its removal; a report
\* that was delivered or removed is never written again; and a report is
\* removed only after one successful write of it or three failed ones.
C20_NoDuplicateNoSkip ==
    /\ [](\A i, j \in 1..Len(delivered) : i # j => delivered[i] # delivered[j])
    /\ [](\A i, j \in 1..Len(removed) : i # j => removed[i] # removed[j])
    /\ [](pc = "write" =>
            /\ \A i \in 1..Len(delivered) : delivered[i] # msg
            /\ \A i \in 1..Len(removed) : removed[i] # msg)
    /\ [][delivered' # delivered => pc' = "get"]_vars
    /\ [][pc = "get" => pc' \in {"get", "peek"}]_vars
    /\ [][removed' # removed =>
            /\ pc = "get"
            /\ usb_hid_msgq # <<>>
            /\ removed' = Append(removed, Head(usb_hid_msgq))
            /\ Head(usb_hid_msgq) = msg
            /\ \/ /\ delivered # <<>>
                  /\ Last(delivered) = msg
                  /\ attempts \in 1..3
               \/ /\ attempts = 3
                  /\ usb_hid_failed = 3
                  /\ \A i \in 1..Len(delivered) : delivered[i] # msg]_vars

\* report 1 was dropped after three failed writes and report 2 has just been
\* delivered by the second write of it
C20_Witness ==
    /\ removed = <<1>>
    /\ delivered = <<2>>
    /\ pc = "get"
    /\ msg = 2
    /\ attempts = 2
    /\ usb_hid_msgq # <<>>
    /\ Head(usb_hid_msgq) = 2

-----------------------------------------------------------------------------
(* Properties of split/bluetooth/service.c, under SpecSvc *)

\* a step is a call of split_svc_run_behavior
IsWrite == nWrites' = nWrites + 1

\* the addresses a write at offset of len bytes is meant for
Range(offset, len) == {a \in BufAddrs : a >= offset /\ a < offset + len}

\* the invocation inv is the one command c asks for
Carries(inv, c) ==
    /\ inv.pressed = (c.state > 0)
    /\ inv.behavior_dev = c.dev
    /\ inv.param1 = c.param1
    /\ inv.param2 = c.param2
    /\ inv.position = c.position

\* two invocations with the same arguments
SameInvocation(i, j) ==
    /\ i.pressed = j.pressed
    /\ i.behavior_dev = j.behavior_dev
    /\ i.param1 = j.param1
    /\ i.param2 = j.param2
    /\ i.position = j.position

\* C3 (as claimed): a write with offset + length greater than the size of the
\* buffer is rejected with the invalid-offset status, changes no byte of the
\* buffer nor of any other memory, and runs no behavior.
C3_OverflowRejected ==
    [][(IsWrite /\ wr'.offset + wr'.len > PayloadSize) =>
          /\ wr'.ret = BT_GATT_ERR(BT_ATT_ERR_INVALID_OFFSET)
          /\ ~wr'.fault
          /\ payload' = payload
          /\ corrupt' = corrupt
          /\ dispatched' = dispatched]_vars

\* C4 (as claimed): after a write with offset + length within the buffer, the
\* buffer holds the written bytes at [offset, offset + length), every other
\* byte of the buffer is as before, and no memory outside the buffer changed.
C4_WriteFidelity ==
    [][(IsWrite /\ wr'.offset + wr'.len <= PayloadSize) =>
          /\ wr'.ret = wr'.len
          /\ \A a \in Range(wr'.offset, wr'.len) :
                payload'[a] = wr'.buf[a - wr'.offset + 1]
          /\ \A a \in BufAddrs \ Range(wr'.offset, wr'.len) :
                payload'[a] = payload[a]
          /\ corrupt' = corrupt
          /\ ~halted']_vars

\* C5 (as claimed): a write runs the behavior only if the writes of the current
\* message, this one included, have covered the whole fixed header.
C5_HeaderBeforeDispatch ==
    [][dispatched' # dispatched =>
          HeaderAddrs \subseteq (covered \cup Range(wr'.offset, wr'.len))]_vars

\* the peer sends again, unchanged, a write that ran the behavior
IsResendOfTerminator == wr.valid /\ wr.ran /\ IsWrite

\* C6 (as claimed): re-sending unchanged a write that ran the behavior leaves
\* the buffer as it is and runs no behavior.
C6_NoSecondDispatch ==
    [][IsResendOfTerminator =>
          /\ payload' = payload
          /\ dispatched' = dispatched]_vars

\* C6 (amended): re-sending unchanged a write that ran the behavior leaves the
\* buffer as it is, is accepted like the first, and runs the behavior once
\* more, with the same identifier, parameters, position and press/release.
C6_ResendDispatchesAgain ==
    [][IsResendOfTerminator =>
          /\ payload' = payload
          /\ wr'.ret = wr.ret
          /\ wr'.ran
          /\ Len(dispatched') = Len(dispatched) + 1
          /\ SubSeq(dispatched', 1, Len(dispatched)) = dispatched
          /\ SameInvocation(dispatched'[Len(dispatched')],
                            dispatched[Len(dispatched)])]_vars

\* a whole command written at offset 0 ran the behavior, and the same write
\* sent again ran it a second time
C6_Witness ==
    /\ wr.valid
    /\ wr.resent
    /\ wr.ran
    /\ wr.offset = 0
    /\ wr.len = PayloadSize
    /\ nWrites = 2
    /\ Len(dispatched) = 2
    /\ dispatched[1].behavior_dev = <<102, 111>>
    /\ SameInvocation(dispatched[1], dispatched[2])

\* the buffer holds the header of command c, written from offset 0 as the
\* first write, nothing after it, and no behavior has run
HeaderOnly(c) ==
    /\ nWrites = 1
    /\ dispatched = <<>>
    /\ covered = HeaderAddrs
    /\ \A a \in HeaderAddrs : payload[a] = Image(c)[a]
    /\ \A a \in BufAddrs \ HeaderAddrs : payload[a] = 0

\* C7 (as claimed): a first write of exactly the header at offset 0 runs no
\* behavior, and a second write of the NUL-terminated identifier right after
\* the header runs exactly one: press if the state written is > 0, release
\* otherwise, with the identifier, param1, param2 and position written.
C7_SplitMessage ==
    /\ []((nWrites = 1 /\ wr.valid /\ wr.offset = 0 /\ wr.len = DataSize
           /\ ~wr.fault) => dispatched = <<>>)
    /\ [][\A c \in Commands :
            (/\ HeaderOnly(c)
             /\ IsWrite
             /\ wr'.offset = DataSize
             /\ wr'.buf = c.dev \o <<0>>)
            => /\ Len(dispatched') = 1
               /\ Carries(dispatched'[1], c)]_vars

\* C13: a write that runs a behavior returns its own length whatever the
\* behavior returned, 0 or an error; it invokes the behavior once; and no step
\* other than a write invokes a behavior, so a failed invocation is not made
\* again.
C13_DispatchFailureContained ==
    /\ [][(IsWrite /\ wr'.ran) =>
            /\ wr'.ret = wr'.len
            /\ Len(dispatched') = Len(dispatched) + 1
            /\ ~halted']_vars
    /\ [][~IsWrite => dispatched' = dispatched]_vars

\* a whole message written at offset 0 ran a behavior that returned an error,
\* and the write returned its length
C13_Witness ==
    /\ wr.valid
    /\ wr.ran
    /\ wr.offset = 0
    /\ wr.len > DataSize
    /\ wr.ret = wr.len
    /\ dispatched # <<>>
    /\ dispatched[Len(dispatched)].err # 0

-----------------------------------------------------------------------------
(* Properties of the HID indicators characteristic, under SpecInd *)

\* the step is a call of split_svc_update_indicators
IsIndWrite == nIndWrites' = nIndWrites + 1

\* C14: an accepted indicator write leaves the work item in the queue, once,
\* whether or not it was there already; the callback raises the event with
\* hid_indicators as it is when the callback runs; an accepted write the
\* callback has not read yet always has the work item queued or running behind
\* it; and once nothing is left to read, the event raised last carries
\* hid_indicators as the last write left it.
C14_Coalescing ==
    /\ [][(IsIndWrite /\ iw'.ret >= 0) => (indQueued' = 1 /\ indDirty')]_vars
    /\ [][raised' # raised =>
            /\ indPc = "run"
            /\ raised' = Append(raised, hid_indicators)]_vars
    /\ [](indQueued <= 1)
    /\ [](indDirty => (indQueued >= 1 \/ indPc = "run"))
    /\ []((~indDirty /\ raised # <<>>) => raised[Len(raised)] = hid_indicators)

\* two writes were accepted, byte 0 and then byte 1, before the callback ran:
\* the work item is in the queue once
C14_Witness ==
    /\ nIndWrites = 2
    /\ iw.valid
    /\ iw.offset = 1
    /\ iw.len = 1
    /\ iw.ret = 1
    /\ hid_indicators[0] = 1
    /\ hid_indicators[1] = 4
    /\ raised = <<>>
    /\ indPc = "idle"
    /\ indQueued = 1

\* C15: a call of split_svc_update_indicators with offset + len above
\* sizeof(zmk_hid_indicators_t) returns BT_GATT_ERR(BT_ATT_ERR_INVALID_OFFSET)
\* and leaves hid_indicators and the work item as they are; every other call
\* returns len, puts byte i of buf at offset + i, leaves the other bytes as
\* they are, and leaves the work item in the queue.
C15_IndicatorBounds ==
    [][IsIndWrite =>
        IF iw'.offset + iw'.len > IndSize
        THEN /\ iw'.ret = -7
             /\ UNCHANGED <<hid_indicators, indQueued, indPc, raised>>
        ELSE /\ iw'.ret = iw'.len
             /\ \A a \in IndAddrs :
                   hid_indicators'[a] =
                       IF a >= iw'.offset /\ a < iw'.offset + iw'.len
                       THEN iw'.buf[a - iw'.offset + 1]
                       ELSE hid_indicators[a]
             /\ indQueued' >= 1]_vars

\* a write of one byte at offset 65535 was rejected, after accepted writes
\* whose bytes and queued work item are still there
C15_Witness ==
    /\ iw.valid
    /\ iw.offset = 65535
    /\ iw.len = 1
    /\ iw.ret = -7
    /\ hid_indicators[0] = 1
    /\ hid_indicators[1] = 4
    /\ indQueued = 1

=============================================================================
